---- MODULE Spec2Model ----
(***************************************************************************)
(* Model of the tokenizer of rush (src/src/tokenizer.rs).                  *)
(*                                                                         *)
(* Characters are Unicode code points, the buffer is a sequence of them.   *)
(* The peekable enumerate() iterator is the number `iter` of characters    *)
(* already yielded; every loop of tokenize (the drive loop and the four    *)
(* inner loops) advances one step per action.  A 64-bit value is kept as   *)
(* five base-10000 limbs, least significant first.                         *)
(***************************************************************************)
EXTENDS Integers, Sequences, FiniteSets, TLC

VARIABLES string, iter, i, ch, raw, pc, line, tokens, skipped

vars == <<string, iter, i, ch, raw, pc, line, tokens, skipped>>

\* ------------------------------------------------------------------ bounds
MaxLen == 3

\* '\n' ' ' '\t' '\r' U+00E9 '0' '1' 'x' 'i' 'f' 'I' '_' '(' '\'' '"' '>' '=' '%'
Alphabet == {10, 32, 9, 13, 233, 48, 49, 120, 105, 102, 73, 95, 40, 39, 34, 62, 61, 37}

\* 'aaa' "bbb" `ccc`
ScenarioMain == <<39,97,97,97,39, 32, 34,98,98,98,34, 32, 96,99,99,99,96>>
\* 124 0x2fFF
ScenarioHex == <<49,50,52, 32, 48,120,50,102,70,70>>
\* if x == 1
ScenarioIf == <<105,102, 32, 120, 32, 61,61, 32, 49>>
\* 9223372036854775807 and 9223372036854775808
ScenarioDecMax == <<57,50,50,51,51,55,50,48,51,54,56,53,52,55,55,53,56,48,55>>
ScenarioDecOver == <<57,50,50,51,51,55,50,48,51,54,56,53,52,55,55,53,56,48,56>>
\* 0x7fffffffffffffff and 0x8000000000000000
ScenarioHexMax == <<48,120,55,102,102,102,102,102,102,102,102,102,102,102,102,102,102,102>>
ScenarioHexOver == <<48,120,56,48,48,48,48,48,48,48,48,48,48,48,48,48,48,48>>

\* if If iff fi_ fi
ScenarioKeywords == <<105,102, 32, 73,102, 32, 105,102,102, 32, 102,105,95, 32, 102,105>>

\* a quoted line break and a line break after it: "\n"\n
ScenarioMultiline == <<34, 10, 34, 10>>

Scenarios == {ScenarioMain, ScenarioHex, ScenarioIf, ScenarioKeywords, ScenarioDecMax,
              ScenarioDecOver, ScenarioHexMax, ScenarioHexOver, ScenarioMultiline}

Inputs == (UNION {[1..n -> Alphabet] : n \in 0..MaxLen}) \cup Scenarios

\* ------------------------------------------------------- UTF-8 and lengths
\* char::len_utf8
Utf8Len(c) == IF c < 128 THEN 1 ELSE IF c < 2048 THEN 2 ELSE IF c < 65536 THEN 3 ELSE 4

\* the bytes a char occupies in a String
Utf8(c) ==
    IF c < 128 THEN <<c>>
    ELSE IF c < 2048 THEN <<192 + (c \div 64), 128 + (c % 64)>>
    ELSE IF c < 65536 THEN <<224 + (c \div 4096), 128 + ((c \div 64) % 64), 128 + (c % 64)>>
    ELSE <<240 + (c \div 262144), 128 + ((c \div 4096) % 64),
           128 + ((c \div 64) % 64), 128 + (c % 64)>>

RECURSIVE Bytes(_)
\* the byte content of a String holding the chars s
Bytes(s) == IF s = <<>> THEN <<>> ELSE Utf8(Head(s)) \o Bytes(Tail(s))

\* String::len(): the length in bytes
StrLen(s) == Len(Bytes(s))

\* ---------------------------------------------------------- classification
IsIdentStart(c) == c \in 97..122 \/ c \in 65..90 \/ c = 95

\* the identifier loop pattern without '0'..='9'
IsIdentCharMutNoDigits(c) == c \in 97..122 \/ c \in 65..90 \/ c = 95

IsIdentChar(c) == c \in 97..122 \/ c \in 65..90 \/ c = 95 \/ c \in 48..57

IsDigit(c) == c \in 48..57

IsHexDigit(c) == c \in 48..57 \/ c \in 97..102 \/ c \in 65..70

IsParen(c) == c \in {123, 125, 40, 41, 91, 93}

IsQuote(c) == c \in {34, 39, 96}

IsSymbol(c) == c \in 33..47 \/ c \in 58..64 \/ c \in 91..96 \/ c \in 123..126

IsSpace(c) == c \in {32, 9}

\* Arm with the symbol range starting at ' ' instead of '!'
ArmMutSpaceIsSymbol(c) ==
    IF c = 10 THEN "newline"
    ELSE IF IsIdentStart(c) THEN "ident"
    ELSE IF IsDigit(c) THEN "digit"
    ELSE IF IsParen(c) THEN "paren"
    ELSE IF IsQuote(c) THEN "quote"
    ELSE IF IsSymbol(c) \/ c = 32 THEN "symbol"
    ELSE IF IsSpace(c) THEN "space"
    ELSE "other"

\* the arm of `match ch` that is taken: the first pattern that matches
Arm(c) ==
    IF c = 10 THEN "newline"
    ELSE IF IsIdentStart(c) THEN "ident"
    ELSE IF IsDigit(c) THEN "digit"
    ELSE IF IsParen(c) THEN "paren"
    ELSE IF IsQuote(c) THEN "quote"
    ELSE IF IsSymbol(c) THEN "symbol"
    ELSE IF IsSpace(c) THEN "space"
    ELSE "other"

\* the pair list without ">="
SymbolPairsMutNoGe == {<<62,62>>, <<60,60>>, <<61,61>>, <<33,61>>, <<60,61>>,
                       <<38,38>>, <<124,124>>, <<43,61>>, <<45,61>>}

\* ">>" "<<" "==" "!=" "<=" ">=" "&&" "||" "+=" "-="
SymbolPairs == {<<62,62>>, <<60,60>>, <<61,61>>, <<33,61>>, <<60,61>>,
                <<62,61>>, <<38,38>>, <<124,124>>, <<43,61>>, <<45,61>>}

\* Keyword::from_str matching without regard to case
KeywordFromStrMutIgnoreCase(s) ==
    IF s \in {<<105, 102>>, <<73, 102>>, <<105, 70>>, <<73, 70>>} THEN "If"
    ELSE IF s \in {<<102, 105>>, <<70, 105>>, <<102, 73>>, <<70, 73>>} THEN "Fi"
    ELSE "Err"

\* Keyword::from_str with serialize_all = "lowercase"
KeywordFromStr(s) ==
    IF s = <<105, 102>> THEN "If"
    ELSE IF s = <<102, 105>> THEN "Fi"
    ELSE "Err"

\* ------------------------------------------------------ signed 64-bit parse
LimbBase == 10000

\* i64::MAX = 9223372036854775807
I64Max == <<5807, 5477, 368, 3372, 922>>

Zero64 == <<0, 0, 0, 0, 0>>

RECURSIVE LimbsLeq(_, _, _)
\* a <= b, comparing from limb k downwards
LimbsLeq(a, b, k) ==
    IF k = 0 THEN TRUE
    ELSE IF a[k] < b[k] THEN TRUE
    ELSE IF a[k] > b[k] THEN FALSE
    ELSE LimbsLeq(a, b, k - 1)

RECURSIVE MulAdd(_, _, _, _)
\* the limbs of v * m + carry from limb k upwards, followed by the carry out
MulAdd(v, m, carry, k) ==
    IF k > Len(v) THEN <<carry>>
    ELSE LET t == v[k] * m + carry
         IN  <<t % LimbBase>> \o MulAdd(v, m, t \div LimbBase, k + 1)

\* char::to_digit(radix), -1 for None
ToDigit(c, radix) ==
    LET d == IF c \in 48..57 THEN c - 48
             ELSE IF c \in 97..122 THEN c - 97 + 10
             ELSE IF c \in 65..90 THEN c - 65 + 10
             ELSE 36
    IN  IF d < radix THEN d ELSE -1

RECURSIVE ParseDigits(_, _, _)
\* result = result.checked_mul(radix)?.checked_add(digit)? over the digits
\* (r ranges over a one-element set so that each step is computed once)
ParseDigits(s, radix, acc) ==
    IF s = <<>> THEN [ok |-> TRUE, val |-> acc]
    ELSE LET d == ToDigit(Head(s), radix)
         IN  CHOOSE res \in
                 { IF d < 0 \/ r[6] # 0 \/ ~LimbsLeq(SubSeq(r, 1, 5), I64Max, 5)
                   THEN [ok |-> FALSE, val |-> Zero64]
                   ELSE ParseDigits(Tail(s), radix, SubSeq(r, 1, 5))
                   : r \in {MulAdd(acc, radix, IF d < 0 THEN 0 ELSE d, 1)} } : TRUE

\* i64::from_str_radix on a text without sign: Err on empty, bad digit, overflow
FromStrRadix(s, radix) ==
    IF s = <<>> THEN [ok |-> FALSE, val |-> Zero64]
    ELSE ParseDigits(s, radix, Zero64)

\* ----------------------------------------------------------------- tokens
\* TokenWithInfo; the buffer field is the shared `string` itself
TokenWithInfo(start, end, token) == [start |-> start, end |-> end, token |-> token]

HasNext == iter < Len(string)

\* iter.peek(): the char the next call of next() yields
Peek == string[iter + 1]

Init ==
    /\ string \in Inputs
    /\ iter = 0
    /\ i = 0
    /\ ch = 0
    /\ raw = <<>>
    /\ pc = "loop"
    /\ line = 1
    /\ tokens = <<>>
    /\ skipped = {}

\* `while let Some((i, ch)) = iter.next()` taking the arm `arm`
Dispatch(arm) ==
    /\ pc = "loop"
    /\ HasNext
    /\ Arm(Peek) = arm
    /\ i' = iter
    /\ ch' = Peek

\* the newline arm without the push of the token
NewlineMutNoPush ==
    /\ Dispatch("newline")
    /\ iter' = iter + 1
    /\ line' = line + 1
    /\ UNCHANGED <<string, raw, pc, tokens, skipped>>

\* the newline arm without `line += 1`
NewlineMutNoIncrement ==
    /\ Dispatch("newline")
    /\ iter' = iter + 1
    /\ tokens' = Append(tokens, TokenWithInfo(iter, iter + 1, <<"Newline", line>>))
    /\ UNCHANGED <<string, raw, pc, line, skipped>>

Newline ==
    /\ Dispatch("newline")
    /\ iter' = iter + 1
    /\ tokens' = Append(tokens, TokenWithInfo(iter, iter + 1, <<"Newline", line>>))
    /\ line' = line + 1
    /\ UNCHANGED <<string, raw, pc, skipped>>

IdentStart ==
    /\ Dispatch("ident")
    /\ iter' = iter + 1
    /\ raw' = <<Peek>>
    /\ pc' = "ident"
    /\ UNCHANGED <<string, line, tokens, skipped>>

IdentStep ==
    /\ pc = "ident"
    /\ HasNext /\ IsIdentChar(Peek)
    /\ raw' = Append(raw, Peek)
    /\ iter' = iter + 1
    /\ UNCHANGED <<string, i, ch, pc, line, tokens, skipped>>

\* the identifier push with the cursor position as start
IdentEndMutStartAtCursor ==
    /\ pc = "ident"
    /\ ~(HasNext /\ IsIdentChar(Peek))
    /\ tokens' = Append(tokens,
          IF KeywordFromStr(raw) # "Err"
          THEN TokenWithInfo(iter, iter + StrLen(raw), <<"Keyword", KeywordFromStr(raw)>>)
          ELSE TokenWithInfo(iter, iter + StrLen(raw), <<"Identifier", raw>>))
    /\ pc' = "loop"
    /\ UNCHANGED <<string, iter, i, ch, raw, line, skipped>>

IdentEnd ==
    /\ pc = "ident"
    /\ ~(HasNext /\ IsIdentChar(Peek))
    /\ tokens' = Append(tokens,
          IF KeywordFromStr(raw) # "Err"
          THEN TokenWithInfo(i, i + StrLen(raw), <<"Keyword", KeywordFromStr(raw)>>)
          ELSE TokenWithInfo(i, i + StrLen(raw), <<"Identifier", raw>>))
    /\ pc' = "loop"
    /\ UNCHANGED <<string, iter, i, ch, raw, line, skipped>>

\* push of the Integer token, or the panic of unwrap() on Err
PushInteger(text, parsed) ==
    IF parsed.ok
    THEN /\ tokens' = Append(tokens,
                TokenWithInfo(i', i' + StrLen(text), <<"Integer", parsed.val>>))
         /\ pc' = "loop"
    ELSE /\ tokens' = tokens
         /\ pc' = "panic"

HexStart ==
    /\ Dispatch("digit")
    /\ iter + 1 < Len(string) /\ string[iter + 2] = 120
    /\ raw' = <<Peek, 120>>
    /\ iter' = iter + 2
    /\ pc' = "hex"
    /\ UNCHANGED <<string, line, tokens, skipped>>

HexStep ==
    /\ pc = "hex"
    /\ HasNext /\ IsHexDigit(Peek)
    /\ raw' = Append(raw, Peek)
    /\ iter' = iter + 1
    /\ UNCHANGED <<string, i, ch, pc, line, tokens, skipped>>

HexEnd ==
    /\ pc = "hex"
    /\ ~(HasNext /\ IsHexDigit(Peek))
    /\ UNCHANGED <<string, iter, i, ch, raw, line, skipped>>
    /\ PushInteger(raw, FromStrRadix(SubSeq(raw, 3, Len(raw)), 16))

DecStart ==
    /\ Dispatch("digit")
    /\ iter + 1 < Len(string) /\ IsDigit(string[iter + 2])
    /\ raw' = <<Peek>>
    /\ iter' = iter + 1
    /\ pc' = "dec"
    /\ UNCHANGED <<string, line, tokens, skipped>>

DecStep ==
    /\ pc = "dec"
    /\ HasNext /\ IsDigit(Peek)
    /\ raw' = Append(raw, Peek)
    /\ iter' = iter + 1
    /\ UNCHANGED <<string, i, ch, pc, line, tokens, skipped>>

DecEnd ==
    /\ pc = "dec"
    /\ ~(HasNext /\ IsDigit(Peek))
    /\ UNCHANGED <<string, iter, i, ch, raw, line, skipped>>
    /\ PushInteger(raw, FromStrRadix(raw, 10))

SingleDigit ==
    /\ Dispatch("digit")
    /\ ~(iter + 1 < Len(string) /\ (string[iter + 2] = 120 \/ IsDigit(string[iter + 2])))
    /\ raw' = <<Peek>>
    /\ iter' = iter + 1
    /\ UNCHANGED <<string, line, skipped>>
    /\ PushInteger(raw', FromStrRadix(raw', 10))

\* the paren arm with `end: i`
ParenMutEmptySpan ==
    /\ Dispatch("paren")
    /\ iter' = iter + 1
    /\ tokens' = Append(tokens, TokenWithInfo(iter, iter, <<"Paren", Peek>>))
    /\ UNCHANGED <<string, raw, pc, line, skipped>>

Paren ==
    /\ Dispatch("paren")
    /\ iter' = iter + 1
    /\ tokens' = Append(tokens, TokenWithInfo(iter, iter + 1, <<"Paren", Peek>>))
    /\ UNCHANGED <<string, raw, pc, line, skipped>>

StrStart ==
    /\ Dispatch("quote")
    /\ iter' = iter + 1
    /\ raw' = <<Peek>>
    /\ pc' = "str"
    /\ UNCHANGED <<string, line, tokens, skipped>>

\* the push after the loop of the string arm
PushString(text) ==
    /\ tokens' = Append(tokens, TokenWithInfo(i, i + StrLen(text), <<"String", text, ch>>))
    /\ pc' = "loop"

\* the string loop closing on any quote character
StrCloseMutAnyQuote ==
    /\ pc = "str"
    /\ HasNext /\ IsQuote(Peek)
    /\ raw' = Append(raw, Peek)
    /\ iter' = iter + 1
    /\ PushString(raw')
    /\ UNCHANGED <<string, i, ch, line, skipped>>

StrClose ==
    /\ pc = "str"
    /\ HasNext /\ Peek = ch
    /\ raw' = Append(raw, Peek)
    /\ iter' = iter + 1
    /\ PushString(raw')
    /\ UNCHANGED <<string, i, ch, line, skipped>>

StrStep ==
    /\ pc = "str"
    /\ HasNext /\ Peek # ch
    /\ raw' = Append(raw, Peek)
    /\ iter' = iter + 1
    /\ UNCHANGED <<string, i, ch, pc, line, tokens, skipped>>

StrEof ==
    /\ pc = "str"
    /\ ~HasNext
    /\ PushString(raw)
    /\ UNCHANGED <<string, iter, i, ch, raw, line, skipped>>

SymbolPair ==
    /\ Dispatch("symbol")
    /\ iter + 1 < Len(string) /\ <<Peek, string[iter + 2]>> \in SymbolPairs
    /\ raw' = <<Peek, string[iter + 2]>>
    /\ iter' = iter + 2
    /\ tokens' = Append(tokens, TokenWithInfo(iter, iter + StrLen(raw'), <<"Symbol", raw'>>))
    /\ UNCHANGED <<string, pc, line, skipped>>

SymbolSingle ==
    /\ Dispatch("symbol")
    /\ ~(iter + 1 < Len(string) /\ <<Peek, string[iter + 2]>> \in SymbolPairs)
    /\ raw' = <<Peek>>
    /\ iter' = iter + 1
    /\ tokens' = Append(tokens, TokenWithInfo(iter, iter + StrLen(raw'), <<"Symbol", raw'>>))
    /\ UNCHANGED <<string, pc, line, skipped>>

\* the whitespace arm looking at the char without taking it
WhitespaceMutNoAdvance ==
    /\ Dispatch("space")
    /\ iter' = iter
    /\ skipped' = skipped \cup {iter}
    /\ UNCHANGED <<string, raw, pc, line, tokens>>

Whitespace ==
    /\ Dispatch("space")
    /\ iter' = iter + 1
    /\ skipped' = skipped \cup {iter}
    /\ UNCHANGED <<string, raw, pc, line, tokens>>

\* the fallback arm emitting the char as a Symbol
IgnoredMutPushSymbol ==
    /\ Dispatch("other")
    /\ iter' = iter + 1
    /\ tokens' = Append(tokens, TokenWithInfo(iter, iter + 1, <<"Symbol", <<Peek>>>>))
    /\ UNCHANGED <<string, raw, pc, line, skipped>>

Ignored ==
    /\ Dispatch("other")
    /\ iter' = iter + 1
    /\ skipped' = skipped \cup {iter}
    /\ UNCHANGED <<string, raw, pc, line, tokens>>

\* iter.next() is None: Ok(tokens)
Finish ==
    /\ pc = "loop"
    /\ ~HasNext
    /\ pc' = "done"
    /\ UNCHANGED <<string, iter, i, ch, raw, line, tokens, skipped>>

Next ==
    \/ Newline
    \/ IdentStart \/ IdentStep \/ IdentEnd
    \/ HexStart \/ HexStep \/ HexEnd
    \/ DecStart \/ DecStep \/ DecEnd
    \/ SingleDigit
    \/ Paren
    \/ StrStart \/ StrClose \/ StrStep \/ StrEof
    \/ SymbolPair \/ SymbolSingle
    \/ Whitespace
    \/ Ignored
    \/ Finish

Spec == Init /\ [][Next]_vars

\* the scan is one sequential run: a step that can be taken is taken
FairSpec == Spec /\ WF_vars(Next)

\* ------------------------------------------------------------- properties
Kind(t) == t.token[1]

TokenIdx == 1..Len(tokens)

RECURSIVE CountChar(_, _)
\* the number of occurrences of the char c in s
CountChar(s, c) ==
    IF s = <<>> THEN 0
    ELSE (IF Head(s) = c THEN 1 ELSE 0) + CountChar(Tail(s), c)

IsNewlineToken(t) == Kind(t) = "Newline"

NewlineTokens == SelectSeq(tokens, IsNewlineToken)

RECURSIVE NewlinesInStrings(_)
\* the number of '\n' held in the raw text of the String tokens of ts
NewlinesInStrings(ts) ==
    IF ts = <<>> THEN 0
    ELSE (IF Kind(Head(ts)) = "String" THEN CountChar(Head(ts).token[2], 10) ELSE 0)
         + NewlinesInStrings(Tail(ts))

\* buffer[a..b] on the bytes of the buffer, <<-1>> when out of range
ByteSlice(a, b) ==
    IF a <= b /\ b <= StrLen(string) THEN SubSeq(Bytes(string), a + 1, b) ELSE <<-1>>

\* the chars a..b-1 of the buffer, <<-1>> when out of range
CharSlice(a, b) ==
    IF a <= b /\ b <= Len(string) THEN SubSeq(string, a + 1, b) ELSE <<-1>>

\* the text a token was scanned from, for the kinds that keep it
RawText(t) ==
    IF Kind(t) = "Newline" THEN <<10>>
    ELSE IF Kind(t) = "Paren" THEN <<t.token[2]>>
    ELSE t.token[2]

\* C1: tokenize never aborts: no reachable state is the panic of an unwrap.
C1_NeverPanics == pc # "panic"

\* C2 (as stated): the output has as many Newline tokens as the input has '\n'.
C2_NewlineCountEqualsAll ==
    pc = "done" => Len(NewlineTokens) = CountChar(string, 10)

\* C2 (amended): the output has as many Newline tokens as the input has '\n'
\* outside the raw text of its String tokens.
C2_NewlineCountOutsideStrings ==
    pc = "done" =>
        Len(NewlineTokens) + NewlinesInStrings(tokens) = CountChar(string, 10)

C2_Witness ==
    /\ pc = "done"
    /\ Len(NewlineTokens) >= 1
    /\ NewlinesInStrings(tokens) >= 1

\* C3: the k-th Newline token carries payload k, and the line counter is one
\* more than the number of Newline tokens emitted so far.
C3_NewlinePayloadsCount ==
    /\ \A k \in 1..Len(NewlineTokens) : NewlineTokens[k].token[2] = k
    /\ line = Len(NewlineTokens) + 1

C3_Witness ==
    /\ pc = "done"
    /\ Len(NewlineTokens) >= 2
    /\ Len(tokens) > Len(NewlineTokens)

\* C4: for every String, Paren, Symbol and Newline token, buffer[start..end]
\* is the token's raw text (read as a byte range or as a char range).
C4_SliceIsRawText ==
    \A k \in TokenIdx :
        LET t == tokens[k]
        IN  Kind(t) \in {"String", "Paren", "Symbol", "Newline"} =>
                \/ ByteSlice(t.start, t.end) = Bytes(RawText(t))
                \/ CharSlice(t.start, t.end) = RawText(t)

CoveredOnce(n) ==
    /\ \A x \in 0..(n - 1) :
          Cardinality({k \in TokenIdx : tokens[k].start <= x /\ x < tokens[k].end})
            + (IF x \in skipped THEN 1 ELSE 0) = 1
    /\ \A k \in TokenIdx : tokens[k].end <= n
    /\ \A x \in skipped : x < n

\* C5: token spans and skipped indices partition [0, len(input)), the length
\* read in bytes or in chars.
C5_SpansPartitionInput ==
    pc = "done" => (CoveredOnce(StrLen(string)) \/ CoveredOnce(Len(string)))

\* C6: every token has 0 <= start < end <= len(buffer), the length of the
\* buffer in bytes.
C6_SpanWithinBuffer ==
    \A k \in TokenIdx :
        /\ 0 <= tokens[k].start
        /\ tokens[k].start < tokens[k].end
        /\ tokens[k].end <= StrLen(string)

C6_Witness ==
    /\ pc = "done"
    /\ \E k \in TokenIdx :
          /\ Kind(tokens[k]) = "String"
          /\ tokens[k].end = StrLen(string)
          /\ tokens[k].end > Len(string)

AllIn(s, P(_)) == \A k \in 1..Len(s) : P(s[k])

\* C7: the span of an Integer token is a run of digits or `0x` and hex digits,
\* and the value is the number the span denotes.
C7_IntegerSpanAndValue ==
    \A k \in TokenIdx :
        LET t == tokens[k]
            span == CharSlice(t.start, t.end)
        IN  Kind(t) = "Integer" =>
                \/ /\ span # <<>> /\ AllIn(span, IsDigit)
                   /\ t.token[2] = FromStrRadix(span, 10).val
                \/ /\ Len(span) > 2 /\ span[1] = 48 /\ span[2] = 120
                   /\ AllIn(SubSeq(span, 3, Len(span)), IsHexDigit)
                   /\ t.token[2] = FromStrRadix(SubSeq(span, 3, Len(span)), 16).val

\* C8: an identifier run is a Keyword exactly when it is `if` or `fi`; any
\* other run is an Identifier holding the whole run; `if x == 1` yields
\* Keyword(If), Identifier("x"), Symbol("=="), Integer(1).
C8_KeywordIffIfOrFi ==
    /\ \A k \in TokenIdx :
          LET t == tokens[k]
              run == CharSlice(t.start, t.end)
          IN  Kind(t) \in {"Keyword", "Identifier"} =>
                /\ run # <<>> /\ IsIdentStart(run[1]) /\ AllIn(run, IsIdentChar)
                /\ t.end = Len(string) \/ ~IsIdentChar(string[t.end + 1])
                /\ Kind(t) = "Keyword" <=> run \in {<<105, 102>>, <<102, 105>>}
                /\ Kind(t) = "Keyword" =>
                      t.token[2] = (IF run = <<105, 102>> THEN "If" ELSE "Fi")
                /\ Kind(t) = "Identifier" => t.token[2] = run
    /\ (pc = "done" /\ string = ScenarioIf) =>
          tokens = << [start |-> 0, end |-> 2, token |-> <<"Keyword", "If">>],
                      [start |-> 3, end |-> 4, token |-> <<"Identifier", <<120>>>>],
                      [start |-> 5, end |-> 7, token |-> <<"Symbol", <<61, 61>>>>],
                      [start |-> 8, end |-> 9, token |-> <<"Integer", <<1, 0, 0, 0, 0>>>>] >>

C8_Witness ==
    /\ pc = "done"
    /\ \E a, b, c, d \in TokenIdx :
          /\ tokens[a].token = <<"Keyword", "If">>
          /\ tokens[b].token = <<"Identifier", <<73, 102>>>>
          /\ tokens[c].token = <<"Identifier", <<105, 102, 102>>>>
          /\ tokens[d].token = <<"Keyword", "Fi">>

\* C9: the start indices of the output are strictly increasing, and every
\* Newline token stands at the index of a '\n' of the buffer.
C9_SourceOrder ==
    /\ \A j, k \in TokenIdx : j < k => tokens[j].start < tokens[k].start
    /\ \A k \in TokenIdx :
          Kind(tokens[k]) = "Newline" => string[tokens[k].start + 1] = 10

C9_Witness ==
    /\ pc = "done"
    /\ Len(tokens) = 3
    /\ Kind(tokens[1]) # "Newline"
    /\ Kind(tokens[2]) = "Newline"
    /\ Kind(tokens[3]) # "Newline"

OnlySpaces(n) == \A k \in 1..n : string[k] \in {32, 9}

\* C10: an input of spaces and tabs only yields no token; no token starts at
\* a space or tab, and a dispatched space or tab leaves tokens and line as
\* they are.
C10_WhitespaceYieldsNothing ==
    /\ [](/\ OnlySpaces(iter) => (tokens = <<>> /\ line = 1)
          /\ \A k \in TokenIdx : string[tokens[k].start + 1] \notin {32, 9})
    /\ [][(pc = "loop" /\ HasNext /\ Peek \in {32, 9})
            => (tokens' = tokens /\ line' = line /\ iter' = iter + 1)]_vars

C10_Witness ==
    /\ pc = "done"
    /\ OnlySpaces(Len(string))
    /\ \E j, k \in 1..Len(string) : string[j] = 32 /\ string[k] = 9
    /\ tokens = <<>>

\* C11: in hexadecimal mode the conversion never fails: when the hex loop
\* stops, the text after the two-character prefix parses as a base-16 i64.
C11_HexNeverFails ==
    (pc = "hex" /\ ~(HasNext /\ IsHexDigit(Peek))) =>
        FromStrRadix(SubSeq(raw, 3, Len(raw)), 16).ok

\* C12: the payload of a Newline token is one plus the number of '\n' of the
\* buffer before the token's start index.
C12_PayloadIsSourceLine ==
    \A k \in TokenIdx :
        Kind(tokens[k]) = "Newline" =>
            tokens[k].token[2] = 1 + CountChar(SubSeq(string, 1, tokens[k].start), 10)

\* the chars s[a..b] hold no q
NoQuoteIn(s, a, b, q) == \A k \in a..b : s[k] # q

\* C13: a String token opened by q holds the buffer from that quote through
\* the first later q, or to the end of the input when there is none (it is
\* then the last token); it holds no other q, and its quoteChar is q.
C13_StringRunsToFirstSameQuote ==
    \A k \in TokenIdx :
        LET t == tokens[k]
            text == t.token[2]
            q == t.token[3]
            n == Len(text)
        IN  Kind(t) = "String" =>
              /\ q \in {34, 39, 96}
              /\ n >= 1 /\ text[1] = q
              /\ t.start + n <= Len(string)
              /\ text = SubSeq(string, t.start + 1, t.start + n)
              /\ \/ n >= 2 /\ text[n] = q /\ NoQuoteIn(text, 2, n - 1, q)
                 \/ /\ NoQuoteIn(text, 2, n, q)
                    /\ t.start + n = Len(string)
                    /\ k = Len(tokens)
                    /\ pc \in {"loop", "done"}

C13_Witness ==
    /\ pc = "done"
    /\ \E k \in TokenIdx :
          /\ Kind(tokens[k]) = "String"
          /\ Len(tokens[k].token[2]) = 3
          /\ tokens[k].token[2][3] = tokens[k].token[3]
          /\ tokens[k].token[2][2] \in {34, 39, 10} \ {tokens[k].token[3]}

\* ASCII punctuation that is neither a paren, bracket or brace nor a quote
PlainPunctuation ==
    ((33..47) \cup (58..64) \cup (91..96) \cup (123..126))
        \ {40, 41, 91, 93, 123, 125, 34, 39, 96}

TenPairs == {<<62, 62>>, <<60, 60>>, <<61, 61>>, <<33, 61>>, <<60, 61>>,
             <<62, 61>>, <<38, 38>>, <<124, 124>>, <<43, 61>>, <<45, 61>>}

\* C14: a Symbol is one plain punctuation char or one of the ten pairs, a
\* pair exactly when the dispatched char and the lookahead form one; `>>>`
\* is Symbol(">>") Symbol(">") and `>%` is Symbol(">") Symbol("%").
C14_SymbolSingleOrPair ==
    /\ \A k \in TokenIdx :
          LET t == tokens[k]
              text == t.token[2]
          IN  Kind(t) = "Symbol" =>
                /\ Len(text) \in {1, 2}
                /\ text = CharSlice(t.start, t.start + Len(text))
                /\ text[1] \in PlainPunctuation
                /\ Len(text) = 2 <=>
                      (t.start + 2 <= Len(string)
                         /\ <<string[t.start + 1], string[t.start + 2]>> \in TenPairs)
    /\ (pc = "done" /\ string = <<62, 62, 62>>) =>
          tokens = << [start |-> 0, end |-> 2, token |-> <<"Symbol", <<62, 62>>>>],
                      [start |-> 2, end |-> 3, token |-> <<"Symbol", <<62>>>>] >>
    /\ (pc = "done" /\ string = <<62, 37>>) =>
          tokens = << [start |-> 0, end |-> 1, token |-> <<"Symbol", <<62>>>>],
                      [start |-> 1, end |-> 2, token |-> <<"Symbol", <<37>>>>] >>

C14_Witness ==
    /\ pc = "done"
    /\ Len(tokens) = 2
    /\ tokens[1].token = <<"Symbol", <<62, 61>>>>
    /\ tokens[2].token = <<"Symbol", <<61>>>>

\* [A-Za-z0-9_]
WordChar(c) == c \in (65..90) \cup (97..122) \cup (48..57) \cup {95}

\* C15: an Identifier or Keyword spans [start, start + run length), its run
\* matches [A-Za-z_][A-Za-z0-9_]*, the char at end is no word char, and when
\* the run ends the cursor stands on that char, which the next step dispatches.
C15_IdentifierRightMaximal ==
    /\ [](\A k \in TokenIdx :
            LET t == tokens[k]
                run == CharSlice(t.start, t.end)
            IN  Kind(t) \in {"Keyword", "Identifier"} =>
                  /\ t.end > t.start /\ t.end <= Len(string)
                  /\ run[1] \notin 48..57
                  /\ \A j \in 1..Len(run) : WordChar(run[j])
                  /\ t.end < Len(string) => ~WordChar(string[t.end + 1])
                  /\ Kind(t) = "Identifier" => t.token[2] = run)
    /\ [][(pc = "ident" /\ pc' # "ident") =>
            (pc' = "loop" /\ iter' = iter /\ tokens'[Len(tokens')].end = iter)]_vars
    /\ [][(pc = "loop" /\ HasNext) => (i' = iter /\ ch' = string[iter + 1])]_vars

C15_Witness ==
    /\ pc = "done"
    /\ Len(tokens) = 2
    /\ Kind(tokens[1]) = "Identifier"
    /\ Len(tokens[1].token[2]) = 2
    /\ tokens[2].start = tokens[1].end

Ended == pc \in {"done", "panic"}

\* twice the chars left, plus 2 inside an inner loop, 1 in the drive loop
ScanMeasure ==
    2 * (Len(string) - iter)
      + (IF pc \in {"ident", "hex", "dec", "str"} THEN 2 ELSE IF pc = "loop" THEN 1 ELSE 0)

\* C16: the scan ends on every input (it reaches its end, every step lowers a
\* measure bounded by the input length, and only an ended scan has no step
\* left); a step of the drive loop or of an inner loop takes at least one
\* char, the cursor never moves back, and a finished scan has taken the whole
\* input.
C16_ScanTerminates ==
    /\ <>Ended
    /\ [](ScanMeasure >= 0 /\ (Ended \/ ENABLED Next))
    /\ [][ScanMeasure' < ScanMeasure]_vars
    /\ [](pc = "done" => iter = Len(string))
    /\ [][iter' >= iter]_vars
    /\ [][(pc = "loop" /\ pc' # "done") => iter' > iter]_vars
    /\ [][(pc \in {"ident", "hex", "dec", "str"} /\ pc' = pc) => iter' = iter + 1]_vars
    /\ [][iter' > iter \/ pc' # pc]_vars

C16_Witness ==
    /\ pc = "done"
    /\ Len(string) = 3
    /\ iter = 3
    /\ Len(tokens) = 1
    /\ Kind(tokens[1]) = "String"
    /\ Len(tokens[1].token[2]) = 3
    /\ tokens[1].token[2][3] # tokens[1].token[3]

\* none of newline, letter, underscore, digit, paren, quote, punctuation,
\* space or tab
Unclassified(c) ==
    c \notin {10, 32, 9, 95} \cup (65..90) \cup (97..122) \cup (48..57)
               \cup (33..47) \cup (58..64) \cup (91..96) \cup (123..126)

\* C17: a dispatched unclassified char is taken without a token, without an
\* abort and without a change of line or tokens; the scan goes on with the
\* next char, and no token starts at such a char.
C17_UnclassifiedDropped ==
    /\ [](\A k \in TokenIdx : ~Unclassified(string[tokens[k].start + 1]))
    /\ [][(pc = "loop" /\ HasNext /\ Unclassified(Peek)) =>
            (tokens' = tokens /\ line' = line /\ pc' = "loop" /\ iter' = iter + 1)]_vars

C17_Witness ==
    /\ pc = "done"
    /\ Len(string) = 3
    /\ string[1] = 13
    /\ string[2] = 233
    /\ Len(tokens) = 1
    /\ tokens[1].start = 2
    /\ line = 1

TypeOK ==
    /\ iter \in 0..Len(string)
    /\ pc \in {"loop", "ident", "hex", "dec", "str", "done", "panic"}
    /\ line \in 1..(Len(string) + 1)
====
